---- MODULE Spec2Model ----
(***************************************************************************)
(* State-machine model of PythonQtHangulInputFilter                        *)
(* (src/python_qt_hangul_input.py): the Hangul composition stack, the      *)
(* transition handler __update_status, the renderer __get_current_char,    *)
(* the display decisions of __show_input, the events the filter posts to   *)
(* the watched object, and the text the watched object shows.              *)
(*                                                                         *)
(* A string is a sequence of code points.  A composition slot is the pair  *)
(* <<type, code>> of the source.                                           *)
(***************************************************************************)
EXTENDS Integers, Sequences, FiniteSets, TLC

\* ------------------------------------------------------------------------
\* _Status_Types
\* ------------------------------------------------------------------------
CHOSEONG == "CHOSEONG"
JUNGSEONG == "JUNGSEONG"
JUNGSEONG_IJUNG == "JUNGSEONG_IJUNG"
JONGSEONG == "JONGSEONG"
JONGSEONG_SSANG == "JONGSEONG_SSANG"
JONGSEONG_GEOP == "JONGSEONG_GEOP"
MOEUM == "MOEUM"
MOEUM_COMBINED == "MOEUM_COMBINED"

Status_Types ==
    { CHOSEONG, JUNGSEONG, JUNGSEONG_IJUNG, JONGSEONG, JONGSEONG_SSANG,
      JONGSEONG_GEOP, MOEUM, MOEUM_COMBINED }

\* ------------------------------------------------------------------------
\* Qt key codes (enum Qt::Key) and event types used by the source
\* ------------------------------------------------------------------------
Key_A == 65
Key_B == 66
Key_C == 67
Key_D == 68
Key_E == 69
Key_F == 70
Key_G == 71
Key_H == 72
Key_I == 73
Key_J == 74
Key_K == 75
Key_L == 76
Key_M == 77
Key_N == 78
Key_O == 79
Key_P == 80
Key_Q == 81
Key_R == 82
Key_S == 83
Key_T == 84
Key_U == 85
Key_V == 86
Key_W == 87
Key_X == 88
Key_Y == 89
Key_Z == 90
Key_Backspace == 16777219
Key_Shift == 16777248
Key_Hangul == 16781617
\* the key code the filter gives the events it posts for an insert
Key_Null == 0
\* a key the filter does not know (the digit 1), which a text widget prints
Key_1 == 49

KeyPress == "KeyPress"
KeyRelease == "KeyRelease"
FocusOut == "FocusOut"

\* Python's None in the second component of a _JAEUM_KEYS entry
None == -1

\* ------------------------------------------------------------------------
\* The jamo tables
\* ------------------------------------------------------------------------
JAEUM_KEYS ==
    (Key_R :> <<0, 1>>) @@ (Key_S :> <<3, None>>) @@ (Key_E :> <<6, 7>>) @@
    (Key_F :> <<8, None>>) @@ (Key_A :> <<16, None>>) @@ (Key_Q :> <<17, 18>>) @@
    (Key_T :> <<20, 21>>) @@ (Key_D :> <<22, None>>) @@ (Key_W :> <<23, 24>>) @@
    (Key_C :> <<25, None>>) @@ (Key_Z :> <<26, None>>) @@ (Key_X :> <<27, None>>) @@
    (Key_V :> <<28, None>>) @@ (Key_G :> <<29, None>>)

MOEUM_KEYS ==
    (Key_K :> <<0, 0>>) @@ (Key_O :> <<1, 3>>) @@ (Key_I :> <<2, 2>>) @@
    (Key_J :> <<4, 4>>) @@ (Key_P :> <<5, 7>>) @@ (Key_U :> <<6, 6>>) @@
    (Key_H :> <<8, 8>>) @@ (Key_Y :> <<12, 12>>) @@ (Key_N :> <<13, 13>>) @@
    (Key_B :> <<17, 17>>) @@ (Key_M :> <<18, 18>>) @@ (Key_L :> <<20, 20>>)

JAEUM_COMBINATIONS ==
    (<<0, 20>> :> 2) @@ (<<3, 23>> :> 4) @@ (<<3, 29>> :> 5) @@
    (<<8, 0>> :> 9) @@ (<<8, 16>> :> 10) @@ (<<8, 17>> :> 11) @@
    (<<8, 20>> :> 12) @@ (<<8, 27>> :> 13) @@ (<<8, 28>> :> 14) @@
    (<<8, 29>> :> 15) @@ (<<17, 20>> :> 19)

MOEUM_COMBINATIONS ==
    (<<8, 0>> :> 9) @@ (<<8, 1>> :> 10) @@ (<<8, 20>> :> 11) @@
    (<<13, 4>> :> 14) @@ (<<13, 5>> :> 15) @@ (<<13, 20>> :> 16)

JAEUM_TO_CHOSEONG ==
    (0 :> 0) @@ (1 :> 1) @@ (3 :> 2) @@ (6 :> 3) @@ (7 :> 4) @@ (8 :> 5) @@
    (16 :> 6) @@ (17 :> 7) @@ (18 :> 8) @@ (20 :> 9) @@ (21 :> 10) @@
    (22 :> 11) @@ (23 :> 12) @@ (24 :> 13) @@ (25 :> 14) @@ (26 :> 15) @@
    (27 :> 16) @@ (28 :> 17) @@ (29 :> 18)

JAEUM_TO_JONGSEONG ==
    (0 :> 1) @@ (1 :> 2) @@ (2 :> 3) @@ (3 :> 4) @@ (4 :> 5) @@ (5 :> 6) @@
    (6 :> 7) @@ (8 :> 8) @@ (9 :> 9) @@ (10 :> 10) @@ (11 :> 11) @@
    (12 :> 12) @@ (13 :> 13) @@ (14 :> 14) @@ (15 :> 15) @@ (16 :> 16) @@
    (17 :> 17) @@ (19 :> 18) @@ (20 :> 19) @@ (21 :> 20) @@ (22 :> 21) @@
    (23 :> 22) @@ (25 :> 23) @@ (26 :> 24) @@ (27 :> 25) @@ (28 :> 26) @@
    (29 :> 27)

\* ------------------------------------------------------------------------
\* __get_current_char
\* ------------------------------------------------------------------------
\* what the renderer yields when a table lookup raises KeyError or an assert
\* fails: no string at all
Raised == << -1 >>

\* the walk of the reversed stack (lines 343-367): i is the position of the
\* slot that next(it) yields, 0 when the iterator is exhausted; the result is
\* result_code, or -1 when an exception escapes
RECURSIVE walk(_, _, _)
walk(keys, i, result_code) ==
    IF i = 0 THEN result_code
    ELSE
      LET type0 == keys[i][1]
          code0 == keys[i][2]
          paired == type0 \in {JUNGSEONG_IJUNG, JONGSEONG_GEOP}
          \* the slot the inner next(it) yields
          j == IF paired THEN i - 1 ELSE i
      IN
      IF j = 0 THEN result_code
      ELSE
        LET type_ == keys[j][1]
            code1 == keys[j][2]
            table == IF type0 = JUNGSEONG_IJUNG
                       THEN MOEUM_COMBINATIONS ELSE JAEUM_COMBINATIONS
            wanted == IF type0 = JUNGSEONG_IJUNG THEN JUNGSEONG ELSE JONGSEONG
            failed == paired /\ (type_ # wanted
                                 \/ <<code1, code0>> \notin DOMAIN table)
            code == IF paired /\ ~failed THEN table[<<code1, code0>>] ELSE code0
        IN
        IF failed THEN -1
        ELSE IF type_ = CHOSEONG THEN
          IF code \in DOMAIN JAEUM_TO_CHOSEONG
            THEN result_code + JAEUM_TO_CHOSEONG[code] * 588
            ELSE -1
        ELSE IF type_ = JUNGSEONG THEN
          walk(keys, j - 1, result_code + code * 28)
        ELSE IF type_ \in {JONGSEONG, JONGSEONG_SSANG} THEN
          IF code \in DOMAIN JAEUM_TO_JONGSEONG
            THEN walk(keys, j - 1, result_code + JAEUM_TO_JONGSEONG[code])
            ELSE -1
        ELSE walk(keys, j - 1, result_code)

\* lines 367-368: the syllable of the walk, unless the walk raised
syllable(result_code) ==
    IF result_code < 0 THEN Raised ELSE << result_code + 44032 >>

\* __get_current_char with the consonant base in line 338
get_current_char_wrong_base(keys) ==
    LET len_prev_keys == Len(keys) IN
    IF len_prev_keys = 0 THEN << >>
    ELSE IF keys[1][1] = MOEUM THEN
      IF len_prev_keys = 1 THEN << keys[1][2] + 12593 >>
      ELSE IF <<keys[1][2], keys[2][2]>> \in DOMAIN MOEUM_COMBINATIONS
        THEN << MOEUM_COMBINATIONS[<<keys[1][2], keys[2][2]>>] + 12593 >>
        ELSE Raised
    ELSE IF len_prev_keys = 1 THEN << keys[1][2] + 12593 >>
    ELSE syllable(walk(keys, len_prev_keys, 0))

get_current_char(keys) ==
    LET len_prev_keys == Len(keys) IN
    IF len_prev_keys = 0 THEN << >>
    ELSE IF keys[1][1] = MOEUM THEN
      IF len_prev_keys = 1 THEN << keys[1][2] + 12623 >>
      ELSE IF <<keys[1][2], keys[2][2]>> \in DOMAIN MOEUM_COMBINATIONS
        THEN << MOEUM_COMBINATIONS[<<keys[1][2], keys[2][2]>>] + 12623 >>
        ELSE Raised
    ELSE IF len_prev_keys = 1 THEN << keys[1][2] + 12593 >>
    ELSE syllable(walk(keys, len_prev_keys, 0))

\* ------------------------------------------------------------------------
\* Events
\* ------------------------------------------------------------------------
\* A QKeyEvent / QFocusEvent: its type, key, whether the shift modifier and
\* whether any other modifier is set, its text and its auto-repeat flag.
Event(type, key, shift, other, text, auto) ==
    [type |-> type, key |-> key, shift |-> shift, other |-> other,
     text |-> text, auto |-> auto]

\* The state the handlers read and write while one event is filtered:
\* the three fields of the filter, the events posted so far (out), the
\* branches __update_status took (trace), whether an exception escaped and
\* the values hangul_status_changed emitted (emitted).
Filter(mode, dnr, keys) ==
    [is_hangul_mode |-> mode, do_not_remove_prev_chr |-> dnr,
     prev_keys |-> keys, out |-> << >>, trace |-> << >>, raised |-> FALSE,
     emitted |-> << >>]

Front(s) == SubSeq(s, 1, Len(s) - 1)

\* the events of a retract (lines 372-377): a Backspace press and release
\* with the text '\b', flagged auto-repeat
Retract ==
    << Event(KeyPress, Key_Backspace, FALSE, FALSE, <<8>>, TRUE),
       Event(KeyRelease, Key_Backspace, FALSE, FALSE, <<8>>, TRUE) >>

\* the events of an insert (lines 385-390): a press of `key` carrying the
\* character and a release of `key`
Insert(key, char) ==
    << Event(KeyPress, key, FALSE, FALSE, char, FALSE),
       Event(KeyRelease, key, FALSE, FALSE, << >>, FALSE) >>

\* __remove_char
remove_char(st) == [st EXCEPT !.out = @ \o Retract]

\* __write_char
write_char(st, key, char) ==
    IF Len(char) # 1 THEN [st EXCEPT !.raised = TRUE]
    ELSE [st EXCEPT !.out = @ \o Insert(key, char)]

\* __show_input without line 324
show_done_keeps_flag(st) == st

\* line 324, which an exception of __write_char does not reach
show_done(st) ==
    IF st.raised THEN st ELSE [st EXCEPT !.do_not_remove_prev_chr = FALSE]

\* lines 318-323 of __show_input without the retract
display_never_removes(st, remove, char) ==
    show_done(write_char(st, Key_Null, char))

\* lines 318-323 of __show_input: the retract, if `remove`, and the insert
display(st, remove, char) ==
    show_done(write_char(IF remove THEN remove_char(st) ELSE st, Key_Null, char))

\* lines 315-324 of __show_input, char being the character of line 314
show_char(st, remove_left_chr, char) ==
    IF char = Raised THEN [st EXCEPT !.raised = TRUE]
    ELSE IF Len(st.prev_keys) = 0 THEN st
    ELSE display(st,
                 IF remove_left_chr # "None"
                   THEN remove_left_chr = "True"
                   ELSE Len(st.prev_keys) # 1 /\ ~st.do_not_remove_prev_chr,
                 char)

\* __show_input without the test of the length in line 321
show_input_always_removes(st, remove_left_chr) ==
    IF get_current_char(st.prev_keys) = Raised \/ Len(st.prev_keys) = 0
      THEN show_char(st, remove_left_chr, get_current_char(st.prev_keys))
      ELSE display(st,
                   IF remove_left_chr # "None"
                     THEN remove_left_chr = "True"
                     ELSE ~st.do_not_remove_prev_chr,
                   get_current_char(st.prev_keys))

\* __show_input; remove_left_chr is "None", "True" or "False"
show_input(st, remove_left_chr) ==
    show_char(st, remove_left_chr, get_current_char(st.prev_keys))

\* ------------------------------------------------------------------------
\* __update_status
\* ------------------------------------------------------------------------
RECURSIVE update_status(_, _, _, _)

\* reset_and_recurse (lines 211-213)
reset_and_recurse(st, is_jaeum, is_ssangjaeum, code) ==
    update_status([st EXCEPT !.prev_keys = << >>, !.trace = Append(@, "reset")],
                  is_jaeum, is_ssangjaeum, code)

\* lines 220-222, which an exception of line 219 does not reach: the flag
\* is set (if `flag`), the stack replaced, and the handler runs again
migrate(st, flag, new_prev_keys, is_jaeum, is_ssangjaeum, code) ==
    IF st.raised THEN st
    ELSE update_status([st EXCEPT !.do_not_remove_prev_chr = (flag \/ @),
                                  !.prev_keys = new_prev_keys],
                       is_jaeum, is_ssangjaeum, code)

\* on_moeum_later_jongseong without line 220
on_moeum_later_jongseong_no_flag(st, is_jaeum, is_ssangjaeum, code) ==
    migrate(show_input([st EXCEPT !.prev_keys = Front(@),
                                  !.trace = Append(@, "migrate")], "None"),
            FALSE, << <<CHOSEONG, st.prev_keys[Len(st.prev_keys)][2]>> >>,
            is_jaeum, is_ssangjaeum, code)

\* on_moeum_later_jongseong moving a whole cluster: both final slots leave
\* the stack and the combined consonant becomes the new initial
on_moeum_later_jongseong_whole_cluster(st, is_jaeum, is_ssangjaeum, code) ==
    LET n == Len(st.prev_keys)
        geop == st.prev_keys[n][1] = JONGSEONG_GEOP
        moved == IF geop
                   THEN JAEUM_COMBINATIONS[<<st.prev_keys[n - 1][2], st.prev_keys[n][2]>>]
                   ELSE st.prev_keys[n][2]
        rest == SubSeq(st.prev_keys, 1, IF geop THEN n - 2 ELSE n - 1)
    IN
    migrate(show_input([st EXCEPT !.prev_keys = rest,
                                  !.trace = Append(@, "migrate")], "None"),
            TRUE, << <<CHOSEONG, moved>> >>, is_jaeum, is_ssangjaeum, code)

\* on_moeum_later_jongseong (lines 215-222)
on_moeum_later_jongseong(st, is_jaeum, is_ssangjaeum, code) ==
    migrate(show_input([st EXCEPT !.prev_keys = Front(@),
                                  !.trace = Append(@, "migrate")], "None"),
            TRUE, << <<CHOSEONG, st.prev_keys[Len(st.prev_keys)][2]>> >>,
            is_jaeum, is_ssangjaeum, code)

\* self.__prev_keys.append(slot) followed by the __show_input of line 229/309
push(st, slot) ==
    show_input([st EXCEPT !.prev_keys = Append(@, slot),
                          !.trace = Append(@, "push")], "None")

\* lines 255 and 297 looking the pair up in either order
moeum_combinable_symmetric(prev_code, code) ==
    \/ <<prev_code, code>> \in DOMAIN MOEUM_COMBINATIONS
    \/ <<code, prev_code>> \in DOMAIN MOEUM_COMBINATIONS

\* lines 255 and 297: (prev_code, code) in _MOEUM_COMBINATIONS
moeum_combinable(prev_code, code) ==
    <<prev_code, code>> \in DOMAIN MOEUM_COMBINATIONS

\* line 276 looking the pair up in either order
jaeum_combinable_symmetric(prev_code, code) ==
    \/ <<prev_code, code>> \in DOMAIN JAEUM_COMBINATIONS
    \/ <<code, prev_code>> \in DOMAIN JAEUM_COMBINATIONS

\* line 276: (prev_code, code) in _JAEUM_COMBINATIONS
jaeum_combinable(prev_code, code) ==
    <<prev_code, code>> \in DOMAIN JAEUM_COMBINATIONS

\* the slot type of a final consonant (lines 245-247, 268-270)
jongseong_type(is_ssangjaeum) ==
    IF is_ssangjaeum THEN JONGSEONG_SSANG ELSE JONGSEONG

\* __update_status with a cluster slot handled by the branch of line 274
update_status_cluster_on_cluster(st, is_jaeum, is_ssangjaeum, code) ==
    IF st.prev_keys = << >> THEN
      push(st, <<IF is_jaeum THEN CHOSEONG ELSE MOEUM, code>>)
    ELSE
      LET prev_type == st.prev_keys[Len(st.prev_keys)][1]
          prev_code == st.prev_keys[Len(st.prev_keys)][2]
          reset == reset_and_recurse(st, is_jaeum, is_ssangjaeum, code)
      IN
      CASE prev_type = CHOSEONG ->
             IF ~is_jaeum THEN push(st, <<JUNGSEONG, code>>) ELSE reset
        [] prev_type = JUNGSEONG ->
             IF is_jaeum THEN
               IF code \in DOMAIN JAEUM_TO_JONGSEONG
                 THEN push(st, <<jongseong_type(is_ssangjaeum), code>>)
                 ELSE reset
             ELSE
               IF moeum_combinable(prev_code, code)
                 THEN push(st, <<JUNGSEONG_IJUNG, code>>)
                 ELSE reset
        [] prev_type = JUNGSEONG_IJUNG ->
             IF ~is_jaeum \/ code \notin DOMAIN JAEUM_TO_JONGSEONG THEN reset
             ELSE push(st, <<jongseong_type(is_ssangjaeum), code>>)
        [] prev_type \in {JONGSEONG, JONGSEONG_GEOP} ->
             IF is_jaeum THEN
               IF jaeum_combinable(prev_code, code)
                 THEN push(st, <<JONGSEONG_GEOP, code>>)
                 ELSE reset
             ELSE on_moeum_later_jongseong(st, is_jaeum, is_ssangjaeum, code)
        [] prev_type = JONGSEONG_SSANG ->
             IF is_jaeum THEN reset
             ELSE on_moeum_later_jongseong(st, is_jaeum, is_ssangjaeum, code)
        [] prev_type = MOEUM ->
             IF ~is_jaeum /\ moeum_combinable(prev_code, code)
               THEN push(st, <<MOEUM_COMBINED, code>>)
               ELSE reset
        [] prev_type = MOEUM_COMBINED -> reset

\* __update_status (lines 224-309)
update_status(st, is_jaeum, is_ssangjaeum, code) ==
    IF st.prev_keys = << >> THEN
      push(st, <<IF is_jaeum THEN CHOSEONG ELSE MOEUM, code>>)
    ELSE
      LET prev_type == st.prev_keys[Len(st.prev_keys)][1]
          prev_code == st.prev_keys[Len(st.prev_keys)][2]
          reset == reset_and_recurse(st, is_jaeum, is_ssangjaeum, code)
      IN
      CASE prev_type = CHOSEONG ->
             IF ~is_jaeum THEN push(st, <<JUNGSEONG, code>>) ELSE reset
        [] prev_type = JUNGSEONG ->
             IF is_jaeum THEN
               IF code \in DOMAIN JAEUM_TO_JONGSEONG
                 THEN push(st, <<jongseong_type(is_ssangjaeum), code>>)
                 ELSE reset
             ELSE
               IF moeum_combinable(prev_code, code)
                 THEN push(st, <<JUNGSEONG_IJUNG, code>>)
                 ELSE reset
        [] prev_type = JUNGSEONG_IJUNG ->
             IF ~is_jaeum \/ code \notin DOMAIN JAEUM_TO_JONGSEONG THEN reset
             ELSE push(st, <<jongseong_type(is_ssangjaeum), code>>)
        [] prev_type = JONGSEONG ->
             IF is_jaeum THEN
               IF jaeum_combinable(prev_code, code)
                 THEN push(st, <<JONGSEONG_GEOP, code>>)
                 ELSE reset
             ELSE on_moeum_later_jongseong(st, is_jaeum, is_ssangjaeum, code)
        [] prev_type \in {JONGSEONG_SSANG, JONGSEONG_GEOP} ->
             IF is_jaeum THEN reset
             ELSE on_moeum_later_jongseong(st, is_jaeum, is_ssangjaeum, code)
        [] prev_type = MOEUM ->
             IF ~is_jaeum /\ moeum_combinable(prev_code, code)
               THEN push(st, <<MOEUM_COMBINED, code>>)
               ELSE reset
        [] prev_type = MOEUM_COMBINED -> reset

\* ------------------------------------------------------------------------
\* eventFilter
\* ------------------------------------------------------------------------
\* lines 186-194 with the flag taken from shift alone
jaeum_input_shift_only(key, shift_pressed) ==
    LET codes == JAEUM_KEYS[key]
        code == codes[IF shift_pressed THEN 2 ELSE 1]
    IN
    [is_ssangjaeum |-> shift_pressed,
     code |-> IF code = None THEN codes[1] ELSE code]

\* lines 186-194: the code and the doubling flag of a consonant key
jaeum_input(key, shift_pressed) ==
    LET codes == JAEUM_KEYS[key]
        code == codes[IF shift_pressed THEN 2 ELSE 1]
    IN
    IF code = None
      THEN [is_ssangjaeum |-> FALSE, code |-> codes[1]]
      ELSE [is_ssangjaeum |-> shift_pressed, code |-> code]

\* lines 197-200: the code of a vowel key
moeum_input(key, shift_pressed) ==
    MOEUM_KEYS[key][IF shift_pressed THEN 2 ELSE 1]

\* `return True` after a handler: an exception that escapes the handler
\* leaves what was done so far and the event unconsumed
handled(st) == [st |-> st, ret |-> ~st.raised]

\* lines 172-178 without the retract of line 176
on_backspace_no_retract(st, e) ==
    IF ~e.auto /\ st.prev_keys # << >> THEN
      handled(show_input([st EXCEPT !.prev_keys = Front(@)], "False"))
    ELSE [st |-> st, ret |-> FALSE]

\* lines 172-178
on_backspace(st, e) ==
    IF ~e.auto /\ st.prev_keys # << >> THEN
      handled(show_input(remove_char([st EXCEPT !.prev_keys = Front(@)]), "False"))
    ELSE [st |-> st, ret |-> FALSE]

\* lines 203-205 without the reset
on_unknown_key_keeps(st, e) == [st |-> st, ret |-> FALSE]

\* lines 203-205 with the reset for every key
on_unknown_key_resets(st, e) ==
    [st |-> [st EXCEPT !.prev_keys = << >>], ret |-> FALSE]

\* lines 203-205
on_unknown_key(st, e) ==
    IF e.key \notin {Key_Null, Key_Shift}
      THEN [st |-> [st EXCEPT !.prev_keys = << >>], ret |-> FALSE]
      ELSE [st |-> st, ret |-> FALSE]

\* lines 150-153 without the reset
on_focus_out_keeps(st) == [st |-> st, ret |-> FALSE]

\* lines 150-153
on_focus_out(st) == [st |-> [st EXCEPT !.prev_keys = << >>], ret |-> FALSE]

\* lines 160-168 without line 164
on_hangul_key_keeps(st) ==
    IF st.is_hangul_mode
      THEN [st |-> [st EXCEPT !.is_hangul_mode = FALSE,
                              !.emitted = Append(@, FALSE)],
            ret |-> TRUE]
      ELSE [st |-> [st EXCEPT !.is_hangul_mode = TRUE,
                              !.emitted = Append(@, TRUE)],
            ret |-> TRUE]

\* lines 160-168: the mode key flips the mode and emits the new mode
on_hangul_key(st) ==
    IF st.is_hangul_mode
      THEN [st |-> [st EXCEPT !.is_hangul_mode = FALSE,
                              !.emitted = Append(@, FALSE),
                              !.prev_keys = << >>],
            ret |-> TRUE]
      ELSE [st |-> [st EXCEPT !.is_hangul_mode = TRUE,
                              !.emitted = Append(@, TRUE)],
            ret |-> TRUE]

\* eventFilter: the filter after the event and the value returned; an
\* exception that escapes a handler leaves what was done so far and the
\* event unconsumed
eventFilter(st, e) ==
    IF e.type = FocusOut THEN on_focus_out(st)
    ELSE IF e.type # KeyPress THEN [st |-> st, ret |-> FALSE]
    ELSE IF e.key = Key_Hangul THEN on_hangul_key(st)
    ELSE IF ~st.is_hangul_mode THEN [st |-> st, ret |-> FALSE]
    ELSE IF e.key = Key_Backspace THEN on_backspace(st, e)
    ELSE IF e.other THEN
      [st |-> [st EXCEPT !.prev_keys = << >>], ret |-> FALSE]
    ELSE IF e.key \in DOMAIN JAEUM_KEYS THEN
      handled(update_status(st, TRUE, jaeum_input(e.key, e.shift).is_ssangjaeum,
                            jaeum_input(e.key, e.shift).code))
    ELSE IF e.key \in DOMAIN MOEUM_KEYS THEN
      handled(update_status(st, FALSE, FALSE, moeum_input(e.key, e.shift)))
    ELSE on_unknown_key(st, e)

\* reset()
reset(st) ==
    [st EXCEPT !.is_hangul_mode = FALSE, !.do_not_remove_prev_chr = FALSE,
               !.prev_keys = << >>]

\* ------------------------------------------------------------------------
\* The state
\* ------------------------------------------------------------------------
VARIABLES
    is_hangul_mode,          \* self.__is_hangul_mode
    do_not_remove_prev_chr,  \* self.__do_not_remove_prev_chr
    prev_keys,               \* self.__prev_keys
    posted,                  \* the events posted to the watched object, not yet delivered
    widget,                  \* "text": the watched object edits text; "plain": it ignores keys
    surface,                 \* the text of the watched object, before the caret
    raised,                  \* an exception has escaped eventFilter
    last,                    \* the last event of the host (history)
    consumed,                \* what eventFilter returned for it (history)
    trace,                   \* the branches __update_status took for it (history)
    before,                  \* stack and text when the last event of the host arrived,
                             \* kept for a text widget (history)
    undo,                    \* stack and text before the last key that only pushed (history)
    signal                   \* the value hangul_status_changed emitted last, FALSE before
                             \* the first emission

vars == << is_hangul_mode, do_not_remove_prev_chr, prev_keys, posted, widget,
           surface, raised, last, consumed, trace, before, undo, signal >>

\* the longest text a key press of the host may start from
MaxText == 2

\* The jamo keys the host presses: on a text widget ㄱ/ㄲ (R), ㅂ/ㅃ (Q) and
\* ㅏ (K); on a plain object, which shows no text, every key of the two key
\* tables.
TypedKeys == {Key_R, Key_Q, Key_K}

JamoKeys == DOMAIN JAEUM_KEYS \cup DOMAIN MOEUM_KEYS

HostJamoKeys == IF widget = "text" THEN TypedKeys ELSE JamoKeys

\* the text the host puts in the key press of `key`
KeyText(key, shift, other) ==
    IF other THEN << >>
    ELSE IF key \in JamoKeys THEN << IF shift THEN key ELSE key + 32 >>
    ELSE IF key = Key_1 THEN << Key_1 >>
    ELSE IF key = Key_Backspace THEN << 8 >>
    ELSE << >>

\* what a text widget does with an event that reaches it: Backspace deletes
\* the character before the caret, a key press with text inserts the text
receive(text, e) ==
    IF widget # "text" \/ e.type # KeyPress THEN text
    ELSE IF e.key = Key_Backspace THEN Front(text)
    ELSE IF ~e.other THEN text \o e.text
    ELSE text

NoSnapshot == [keys |-> << >>, text |-> << >>]

Snapshot ==
    IF widget = "text" THEN [keys |-> prev_keys, text |-> surface]
    ELSE NoSnapshot

NoUndo == [phase |-> "none", keys |-> << >>, text |-> << >>]

NoEvent == Event("None", Key_Null, FALSE, FALSE, << >>, FALSE)

Init ==
    /\ is_hangul_mode = FALSE
    /\ do_not_remove_prev_chr = FALSE
    /\ prev_keys = << >>
    /\ posted = << >>
    /\ widget = "text"
    /\ surface = << >>
    /\ raised = FALSE
    /\ last = NoEvent
    /\ consumed = FALSE
    /\ trace = << >>
    /\ before = NoSnapshot
    /\ undo = NoUndo
    /\ signal = FALSE

InitAll ==
    /\ is_hangul_mode = FALSE
    /\ do_not_remove_prev_chr = FALSE
    /\ prev_keys = << >>
    /\ posted = << >>
    /\ widget = "plain"
    /\ surface = << >>
    /\ raised = FALSE
    /\ last = NoEvent
    /\ consumed = FALSE
    /\ trace = << >>
    /\ before = NoSnapshot
    /\ undo = NoUndo
    /\ signal = FALSE

Current == Filter(is_hangul_mode, do_not_remove_prev_chr, prev_keys)

\* the history of the last pushing key and of the Backspace that follows it
Undo(e, r) ==
    IF r.ret /\ r.st.trace = << "push" >>
      THEN [phase |-> "pushed", keys |-> prev_keys, text |-> surface]
    ELSE IF r.ret /\ e.key = Key_Backspace /\ undo.phase = "pushed"
      THEN [undo EXCEPT !.phase = "undone"]
    ELSE NoUndo

\* what a slot connected to hangul_status_changed holds after the handler
Emitted(st) ==
    IF st.emitted = << >> THEN signal ELSE st.emitted[Len(st.emitted)]

\* the host sends event e to the watched object: the filter sees it first
\* and the object receives it unless the filter consumed it
Host(e) ==
    \E r \in {eventFilter(Current, e)} :
    /\ is_hangul_mode' = r.st.is_hangul_mode
    /\ do_not_remove_prev_chr' = r.st.do_not_remove_prev_chr
    /\ prev_keys' = r.st.prev_keys
    /\ posted' = posted \o r.st.out
    /\ surface' = IF r.ret THEN surface ELSE receive(surface, e)
    /\ raised' = (raised \/ r.st.raised)
    /\ last' = e
    /\ consumed' = r.ret
    /\ trace' = r.st.trace
    /\ before' = Snapshot
    /\ undo' = Undo(e, r)
    /\ signal' = Emitted(r.st)
    /\ UNCHANGED widget

\* the events the filter posted reach the watched object before the next
\* event of the host
Ready == posted = << >>

Room == Len(surface) < MaxText

\* a jamo key, with or without shift
JamoKey ==
    /\ Ready /\ Room
    /\ \E key \in HostJamoKeys, shift \in BOOLEAN :
         Host(Event(KeyPress, key, shift, FALSE, KeyText(key, shift, FALSE), FALSE))

\* Backspace pressed
BackspacePress ==
    /\ Ready
    /\ Host(Event(KeyPress, Key_Backspace, FALSE, FALSE,
                  KeyText(Key_Backspace, FALSE, FALSE), FALSE))

\* Backspace repeating while it is held
BackspaceRepeat ==
    /\ Ready
    /\ Host(Event(KeyPress, Key_Backspace, FALSE, FALSE,
                  KeyText(Key_Backspace, FALSE, FALSE), TRUE))

BackspaceKey == BackspacePress \/ BackspaceRepeat

HangulKey ==
    /\ Ready
    /\ Host(Event(KeyPress, Key_Hangul, FALSE, FALSE, << >>, FALSE))

\* a key of neither key table: Shift itself, a key without a code, a digit
UnknownKey ==
    /\ Ready /\ Room
    /\ \E key \in {Key_Shift, Key_Null, Key_1} :
         Host(Event(KeyPress, key, key = Key_Shift, FALSE,
                    KeyText(key, FALSE, FALSE), FALSE))

\* a key pressed together with a modifier other than shift
ChordKey ==
    /\ Ready
    /\ \E key \in HostJamoKeys \cup {Key_Backspace, Key_1} :
         Host(Event(KeyPress, key, FALSE, TRUE, KeyText(key, FALSE, TRUE), FALSE))

KeyReleased ==
    /\ Ready
    /\ Host(Event(KeyRelease, Key_Hangul, FALSE, FALSE, << >>, FALSE))

FocusLost ==
    /\ Ready
    /\ Host(Event(FocusOut, Key_Null, FALSE, FALSE, << >>, FALSE))

ResetCall ==
    /\ Ready
    /\ \E st \in {reset(Current)} :
       /\ is_hangul_mode' = st.is_hangul_mode
       /\ do_not_remove_prev_chr' = st.do_not_remove_prev_chr
       /\ prev_keys' = st.prev_keys
    /\ last' = Event("reset", Key_Null, FALSE, FALSE, << >>, FALSE)
    /\ consumed' = FALSE
    /\ trace' = << >>
    /\ before' = Snapshot
    /\ undo' = NoUndo
    /\ UNCHANGED << posted, widget, surface, raised, signal >>

\* the event loop delivers the oldest posted event: through the filter, then
\* to the watched object
Deliver ==
    /\ posted # << >>
    /\ \E e \in {Head(posted)} : \E r \in {eventFilter(Current, e)} :
       /\ is_hangul_mode' = r.st.is_hangul_mode
       /\ do_not_remove_prev_chr' = r.st.do_not_remove_prev_chr
       /\ prev_keys' = r.st.prev_keys
       /\ posted' = Tail(posted) \o r.st.out
       /\ surface' = IF r.ret THEN surface ELSE receive(surface, e)
       /\ raised' = (raised \/ r.st.raised)
       /\ signal' = Emitted(r.st)
    /\ UNCHANGED << widget, last, consumed, trace, before, undo >>

Next ==
    \/ JamoKey
    \/ BackspaceKey
    \/ HangulKey
    \/ UnknownKey
    \/ ChordKey
    \/ KeyReleased
    \/ FocusLost
    \/ ResetCall
    \/ Deliver

\* a text widget and the keys of TypedKeys
Spec == Init /\ [][Next]_vars

\* a plain object and every key of the key tables
SpecAll == InitAll /\ [][Next]_vars

\* ------------------------------------------------------------------------
\* What the claims say
\* ------------------------------------------------------------------------
Top(keys) == keys[Len(keys)]

\* the last event of the host was a press of a jamo key that the filter
\* classifies (no modifier other than shift)
LastIsJamo ==
    /\ last.type = KeyPress
    /\ last.key \in JamoKeys
    /\ ~last.other

LastIsMoeum == LastIsJamo /\ last.key \in DOMAIN MOEUM_KEYS

LastIsJaeum == LastIsJamo /\ last.key \in DOMAIN JAEUM_KEYS

\* that press arrived with a stack whose top slot has one of `types`
BeforeTop(types) ==
    /\ before.keys # << >>
    /\ Top(before.keys)[1] \in types

\* C1: a vowel pressed on a stack whose top slot is FINAL(c) or
\* FINAL_GEMINATE(c) migrates: the filter posts retract, insert(the syllable
\* without its final), insert(the new syllable), in this order; the stack
\* becomes [INITIAL(c), MEDIAL(v)]; once the events are delivered the text
\* has lost its last character and gained those two.  With the text "갑" of
\* the keys ㄱ ㅏ ㅂ, the key ㅏ leaves exactly "가" "바".
C1_MigrateFinal ==
    (LastIsMoeum /\ BeforeTop({JONGSEONG, JONGSEONG_SSANG})) =>
      LET old == before.keys
          c == Top(old)[2]
          v == moeum_input(last.key, last.shift)
          first == get_current_char(Front(old))
          second == get_current_char(prev_keys)
      IN
      /\ consumed
      /\ ~raised
      /\ trace = << "migrate", "push" >>
      /\ prev_keys = << <<CHOSEONG, c>>, <<JUNGSEONG, v>> >>
      /\ Len(posted) = 6 =>
           posted = Retract \o Insert(Key_Null, first) \o Insert(Key_Null, second)
      /\ posted = << >> =>
           surface = Front(before.text) \o first \o second
      /\ (posted = << >> /\ before.text = << 44049 >>
            /\ old = << <<CHOSEONG, 0>>, <<JUNGSEONG, 0>>, <<JONGSEONG, 17>> >>) =>
           surface = << 44032, 48148 >>

\* ㄱ ㅏ ㅂ ㅏ typed into an empty text shows "가바"
C1_Witness ==
    /\ LastIsMoeum
    /\ before.keys = << <<CHOSEONG, 0>>, <<JUNGSEONG, 0>>, <<JONGSEONG, 17>> >>
    /\ before.text = << 44049 >>
    /\ posted = << >>
    /\ surface = << 44032, 48148 >>

\* a table entry, or a number no code point is made of where there is none
Entry(table, x) == IF x \in DOMAIN table THEN table[x] ELSE -1000000

TypesOf(keys) == [i \in 1..Len(keys) |-> keys[i][1]]

\* C2: rendering the stack never raises, and yields one character for a
\* stack that has slots and the empty string for the empty stack; a
\* JUNGSEONG_IJUNG slot lies on a JUNGSEONG slot and the two codes are a
\* vowel combination, a JONGSEONG_GEOP slot lies on a JONGSEONG slot and the
\* two codes are a consonant combination with a final index, and the
\* CHOSEONG code below other slots has an initial index.
C2_RenderDefined ==
    /\ ~raised
    /\ get_current_char(prev_keys) # Raised
    /\ Len(get_current_char(prev_keys)) = (IF prev_keys = << >> THEN 0 ELSE 1)
    /\ \A i \in 1..Len(prev_keys) :
         /\ prev_keys[i][1] = JUNGSEONG_IJUNG =>
              /\ i > 1
              /\ prev_keys[i - 1][1] = JUNGSEONG
              /\ <<prev_keys[i - 1][2], prev_keys[i][2]>> \in DOMAIN MOEUM_COMBINATIONS
         /\ prev_keys[i][1] = JONGSEONG_GEOP =>
              /\ i > 1
              /\ prev_keys[i - 1][1] = JONGSEONG
              /\ <<prev_keys[i - 1][2], prev_keys[i][2]>> \in DOMAIN JAEUM_COMBINATIONS
              /\ JAEUM_COMBINATIONS[<<prev_keys[i - 1][2], prev_keys[i][2]>>]
                   \in DOMAIN JAEUM_TO_JONGSEONG
         /\ (prev_keys[i][1] = CHOSEONG /\ Len(prev_keys) >= 2) =>
              prev_keys[i][2] \in DOMAIN JAEUM_TO_CHOSEONG

\* a stack that holds a vowel combination and a cluster has been rendered
C2_Witness ==
    /\ \E i \in 1..Len(prev_keys) : prev_keys[i][1] = JUNGSEONG_IJUNG
    /\ \E i \in 1..Len(prev_keys) : prev_keys[i][1] = JONGSEONG_GEOP
    /\ trace = << "push" >>
    /\ Len(posted) = 4
    /\ posted[3].text = get_current_char(prev_keys)

\* the code point the specification gives a stack, by the shape of the stack
Reference(keys) ==
    LET n == Len(keys)
        types == TypesOf(keys)
        ijung == n >= 3 /\ types[3] = JUNGSEONG_IJUNG
        m == IF ijung THEN Entry(MOEUM_COMBINATIONS, <<keys[2][2], keys[3][2]>>)
             ELSE keys[2][2]
        k == IF ijung THEN 4 ELSE 3
        f == IF n < k THEN 0
             ELSE IF n = k /\ types[k] \in {JONGSEONG, JONGSEONG_SSANG}
               THEN Entry(JAEUM_TO_JONGSEONG, keys[k][2])
             ELSE IF n = k + 1 /\ types[k] = JONGSEONG /\ types[k + 1] = JONGSEONG_GEOP
               THEN Entry(JAEUM_TO_JONGSEONG,
                          Entry(JAEUM_COMBINATIONS, <<keys[k][2], keys[k + 1][2]>>))
             ELSE -1000000
    IN
    IF types = << CHOSEONG >> THEN 12593 + keys[1][2]
    ELSE IF types = << MOEUM >> THEN 12623 + keys[1][2]
    ELSE IF types = << MOEUM, MOEUM_COMBINED >>
      THEN 12623 + Entry(MOEUM_COMBINATIONS, <<keys[1][2], keys[2][2]>>)
    ELSE IF n >= 2 /\ types[1] = CHOSEONG /\ types[2] = JUNGSEONG
      THEN 44032 + (Entry(JAEUM_TO_CHOSEONG, keys[1][2]) * 21 + m) * 28 + f
    ELSE -1000000

IsSyllable(keys) == Len(keys) >= 2 /\ keys[1][1] = CHOSEONG

\* C5: the renderer gives every stack the code point of the reference
\* function, and a syllable lies in 0xAC00..0xD7A3.
C5_RenderIsReference ==
    prev_keys # << >> =>
      /\ get_current_char(prev_keys) = << Reference(prev_keys) >>
      /\ IsSyllable(prev_keys) =>
           (Reference(prev_keys) >= 44032 /\ Reference(prev_keys) <= 55203)

\* ㄱ ㅗ ㅏ ㄹ ㄱ is rendered as U+AD05
C5_Witness ==
    /\ prev_keys = << <<CHOSEONG, 0>>, <<JUNGSEONG, 8>>, <<JUNGSEONG_IJUNG, 0>>,
                      <<JONGSEONG, 8>>, <<JONGSEONG_GEOP, 0>> >>
    /\ Len(posted) = 4
    /\ posted[3].text = << 44293 >>

\* C7 as stated: the stack holds at most 4 slots.
C7_AtMostFour == Len(prev_keys) <= 4

\* C7 as amended: the stack holds at most 5 slots: an initial, a vowel and
\* its combination, a final and its cluster.
C7_AtMostFive == Len(prev_keys) <= 5

\* a stack of five slots
C7_Witness ==
    /\ Len(prev_keys) = 5
    /\ TypesOf(prev_keys) = << CHOSEONG, JUNGSEONG, JUNGSEONG_IJUNG,
                               JONGSEONG, JONGSEONG_GEOP >>

\* A step in which the host presses a key: no posted event is waiting, which
\* only the steps of the host allow, and the key becomes the last event.
\* The unprimed variables are the state the key press arrives in.
VowelPressedOn(types) ==
    /\ posted = << >>
    /\ is_hangul_mode
    /\ LastIsMoeum'
    /\ prev_keys # << >>
    /\ Top(prev_keys)[1] \in types

ConsonantPressedOn(types) ==
    /\ posted = << >>
    /\ is_hangul_mode
    /\ LastIsJaeum'
    /\ prev_keys # << >>
    /\ Top(prev_keys)[1] \in types

\* C6 as stated: a vowel pressed on FINAL(c1), FINAL_CLUSTER(c2) moves the
\* whole cluster: the old syllable is shown without any final and the new
\* stack is [INITIAL(ConsonantCombine(c1, c2)), MEDIAL(v)].
C6_WholeClusterMigrates ==
    [][VowelPressedOn({JONGSEONG_GEOP}) =>
         LET n == Len(prev_keys)
             v == moeum_input(last'.key, last'.shift)
             cluster == Entry(JAEUM_COMBINATIONS, <<prev_keys[n - 1][2], prev_keys[n][2]>>)
             shown == SubSeq(prev_keys, 1, n - 2)
         IN
         /\ prev_keys' = << <<CHOSEONG, cluster>>, <<JUNGSEONG, v>> >>
         /\ posted' = Retract \o Insert(Key_Null, get_current_char(shown))
                              \o Insert(Key_Null, get_current_char(prev_keys'))
    ]_vars

\* C6 as amended: a vowel pressed on FINAL(c1), FINAL_CLUSTER(c2) moves the
\* second consonant only: the old syllable is shown again with the final c1
\* (stack [INITIAL, MEDIAL(, MEDIAL_COMBINED), FINAL(c1)]), the new stack is
\* [INITIAL(c2), MEDIAL(v)] and its syllable is inserted after the old one.
C6_SecondConsonantMigrates ==
    [][VowelPressedOn({JONGSEONG_GEOP}) =>
         LET n == Len(prev_keys)
             v == moeum_input(last'.key, last'.shift)
             shown == Front(prev_keys)
         IN
         /\ consumed'
         /\ ~raised'
         /\ trace' = << "migrate", "push" >>
         /\ Top(shown) = <<JONGSEONG, prev_keys[n - 1][2]>>
         /\ prev_keys' = << <<CHOSEONG, prev_keys[n][2]>>, <<JUNGSEONG, v>> >>
         /\ posted' = Retract \o Insert(Key_Null, get_current_char(shown))
                              \o Insert(Key_Null, get_current_char(prev_keys'))
    ]_vars

\* a migration has just posted its events and the old syllable keeps a final
C6_Witness ==
    /\ trace = << "migrate", "push" >>
    /\ Len(posted) = 6
    /\ (posted[3].text[1] - 44032) % 28 # 0
    /\ Len(prev_keys) = 2

\* the host presses a jamo key in Hangul mode
JamoPressed ==
    /\ posted = << >>
    /\ is_hangul_mode
    /\ LastIsJamo'

\* the type of the top slot the key press finds, "NONE" on the empty stack
TopType == IF prev_keys = << >> THEN "NONE" ELSE Top(prev_keys)[1]

TopCode == IF prev_keys = << >> THEN None ELSE Top(prev_keys)[2]

\* the key press is a reset: the stack is the one the input gives the empty
\* stack, and the handler ran twice
ResetTo(type, code) ==
    /\ trace' = << "reset", "push" >>
    /\ prev_keys' = << <<type, code>> >>

CountOf(keys, types) == Cardinality({i \in 1..Len(keys) : keys[i][1] \in types})

\* C8: a combination slot is pushed exactly when the top slot is MEDIAL,
\* VOWEL_ALONE or FINAL, the input is a vowel, a vowel or a consonant, and
\* (code of the top slot, code of the input) is a key of the combination
\* table; a pair the table holds in the other order only resets; a vowel on
\* MEDIAL_COMBINED, any input on VOWEL_ALONE_COMBINED and a consonant on
\* FINAL_CLUSTER or FINAL_GEMINATE reset; no stack holds two vowel
\* combinations or two clusters.
C8_OrderedCombination ==
    [][JamoPressed =>
         LET jaeum == last'.key \in DOMAIN JAEUM_KEYS
             code == IF jaeum
                       THEN IF last'.shift /\ JAEUM_KEYS[last'.key][2] # None
                              THEN JAEUM_KEYS[last'.key][2]
                              ELSE JAEUM_KEYS[last'.key][1]
                       ELSE MOEUM_KEYS[last'.key][IF last'.shift THEN 2 ELSE 1]
             first == IF jaeum THEN CHOSEONG ELSE MOEUM
             forward == <<TopCode, code>>
             backward == <<code, TopCode>>
             combined ==
               CASE TopType = JUNGSEONG /\ ~jaeum /\ forward \in DOMAIN MOEUM_COMBINATIONS
                      -> JUNGSEONG_IJUNG
                 [] TopType = MOEUM /\ ~jaeum /\ forward \in DOMAIN MOEUM_COMBINATIONS
                      -> MOEUM_COMBINED
                 [] TopType = JONGSEONG /\ jaeum /\ forward \in DOMAIN JAEUM_COMBINATIONS
                      -> JONGSEONG_GEOP
                 [] OTHER -> "NONE"
             pushed == /\ Len(prev_keys') = Len(prev_keys) + 1
                       /\ Front(prev_keys') = prev_keys
                       /\ Top(prev_keys')[1] \in
                            {JUNGSEONG_IJUNG, MOEUM_COMBINED, JONGSEONG_GEOP}
         IN
         /\ pushed <=> combined # "NONE"
         /\ combined # "NONE" => Top(prev_keys') = <<combined, code>>
         /\ (/\ TopType \in {JUNGSEONG, MOEUM}
             /\ ~jaeum
             /\ backward \in DOMAIN MOEUM_COMBINATIONS
             /\ forward \notin DOMAIN MOEUM_COMBINATIONS) => ResetTo(first, code)
         /\ (/\ TopType = JONGSEONG
             /\ jaeum
             /\ backward \in DOMAIN JAEUM_COMBINATIONS
             /\ forward \notin DOMAIN JAEUM_COMBINATIONS) => ResetTo(first, code)
         /\ (TopType = JUNGSEONG_IJUNG /\ ~jaeum) => ResetTo(first, code)
         /\ TopType = MOEUM_COMBINED => ResetTo(first, code)
         /\ (TopType \in {JONGSEONG_GEOP, JONGSEONG_SSANG} /\ jaeum) =>
              ResetTo(first, code)
         /\ CountOf(prev_keys', {JUNGSEONG_IJUNG, MOEUM_COMBINED}) <= 1
         /\ CountOf(prev_keys', {JONGSEONG_GEOP}) <= 1
    ]_vars

\* a vowel has just been combined with the vowel of the syllable
C8_Witness ==
    /\ LastIsMoeum
    /\ trace = << "push" >>
    /\ Len(prev_keys) = 3
    /\ Top(prev_keys)[1] = JUNGSEONG_IJUNG
    /\ <<prev_keys[2][2], prev_keys[3][2]>> \in DOMAIN MOEUM_COMBINATIONS
    /\ <<prev_keys[3][2], prev_keys[2][2]>> \notin DOMAIN MOEUM_COMBINATIONS

ShiftCodes == {JAEUM_KEYS[k][2] : k \in DOMAIN JAEUM_KEYS} \ {None}

PlainCodes == {JAEUM_KEYS[k][1] : k \in DOMAIN JAEUM_KEYS}

\* C9: a consonant key pressed on MEDIAL or MEDIAL_COMBINED pushes
\* FINAL_GEMINATE(shift code) exactly when shift is held, the key has a shift
\* variant and the variant has a final index; it pushes FINAL(plain code)
\* when shift is not held or the key has no shift variant; a shift variant
\* without a final index resets.  A FINAL_GEMINATE slot holds a shift
\* variant, never a plain code.
C9_DoublingFromShift ==
    [][ /\ ConsonantPressedOn({JUNGSEONG, JUNGSEONG_IJUNG}) =>
             LET codes == JAEUM_KEYS[last'.key]
                 variant == codes[2]
             IN
             IF last'.shift /\ variant # None THEN
               IF variant \in DOMAIN JAEUM_TO_JONGSEONG
                 THEN /\ prev_keys' = Append(prev_keys, <<JONGSEONG_SSANG, variant>>)
                      /\ trace' = << "push" >>
                 ELSE ResetTo(CHOSEONG, variant)
             ELSE /\ prev_keys' = Append(prev_keys, <<JONGSEONG, codes[1]>>)
                  /\ trace' = << "push" >>
        /\ \A i \in 1..Len(prev_keys') :
             prev_keys'[i][1] = JONGSEONG_SSANG =>
               (prev_keys'[i][2] \in ShiftCodes /\ prev_keys'[i][2] \notin PlainCodes)
    ]_vars

\* shift and a consonant key have just pushed a FINAL_GEMINATE slot
C9_Witness ==
    /\ LastIsJaeum
    /\ last.shift
    /\ trace = << "push" >>
    /\ Len(prev_keys) >= 3
    /\ Top(prev_keys) = <<JONGSEONG_SSANG, JAEUM_KEYS[last.key][2]>>

\* the last jamo press was a reset: the handler emptied the stack and ran
\* again
LastWasReset == LastIsJamo /\ trace = << "reset", "push" >>

\* the character of the one slot the last jamo press gives the empty stack
FirstSlot ==
    IF last.key \in DOMAIN JAEUM_KEYS
      THEN <<CHOSEONG,
             IF last.shift /\ JAEUM_KEYS[last.key][2] # None
               THEN JAEUM_KEYS[last.key][2]
               ELSE JAEUM_KEYS[last.key][1]>>
      ELSE <<MOEUM, MOEUM_KEYS[last.key][IF last.shift THEN 2 ELSE 1]>>

IsPrefix(s, t) == Len(s) <= Len(t) /\ SubSeq(t, 1, Len(s)) = s

\* C3: a jamo press that resets a non-empty stack posts no retract and one
\* insert: the text it found is a prefix of the text afterwards, which is
\* that text and the character of the new one-slot stack; with the stack
\* [INITIAL(c1)] and its character displayed, a consonant key always resets
\* and leaves the two standalone consonants side by side.
C3_ResetKeepsDisplayed ==
    /\ (LastWasReset /\ before.keys # << >>) =>
         /\ consumed
         /\ ~raised
         /\ prev_keys = << FirstSlot >>
         /\ Len(posted) <= 2
         /\ Len(posted) = 2 =>
              posted = Insert(Key_Null, get_current_char(<< FirstSlot >>))
         /\ IsPrefix(before.text, surface)
         /\ posted = << >> =>
              surface = before.text \o get_current_char(<< FirstSlot >>)
    /\ (/\ LastIsJaeum
        /\ Len(before.keys) = 1
        /\ before.keys[1][1] = CHOSEONG
        /\ before.text # << >>
        /\ Top(before.text) = 12593 + before.keys[1][2]) =>
         /\ LastWasReset
         /\ posted = << >> =>
              surface = Front(before.text)
                          \o << 12593 + before.keys[1][2], 12593 + FirstSlot[2] >>

\* ㄱ then ㅂ typed into an empty text shows "ㄱㅂ"
C3_Witness ==
    /\ LastWasReset
    /\ LastIsJaeum
    /\ before.keys = << <<CHOSEONG, 0>> >>
    /\ before.text = << 12593 >>
    /\ posted = << >>
    /\ surface = << 12593, 12610 >>

\* the last event of the host was, in Hangul mode, a press of a key that
\* is no consonant key, no vowel key, not Backspace and not the mode key,
\* with no modifier other than shift
UnknownPressed ==
    /\ is_hangul_mode
    /\ last.type = KeyPress
    /\ last.key \notin JamoKeys \cup {Key_Backspace, Key_Hangul}
    /\ ~last.other

\* C10 as the specification states it: such a key leaves the stack as it
\* was, posts nothing and reaches the watched object.
C10_StackUnchanged ==
    UnknownPressed =>
      /\ prev_keys = before.keys
      /\ posted = << >>
      /\ ~consumed
      /\ surface = before.text \o last.text

\* C10: such a key posts nothing and reaches the watched object; the Shift
\* key and a key without a code leave the stack as it was, every other such
\* key empties it.
C10_StackKeptOrCleared ==
    UnknownPressed =>
      /\ prev_keys = IF last.key \in {Key_Null, Key_Shift} THEN before.keys ELSE << >>
      /\ posted = << >>
      /\ ~consumed
      /\ surface = before.text \o last.text

\* the digit 1 typed after a syllable: the stack is empty, the text has both
C10_Witness ==
    /\ UnknownPressed
    /\ last.key = Key_1
    /\ Len(before.keys) >= 2
    /\ prev_keys = << >>
    /\ surface = before.text \o << Key_1 >>

\* C4: a Backspace that is not a repeat, pressed right after a jamo key that
\* only pushed one slot on the stack S, leaves the stack S and, once the
\* posted events are delivered, the text that key found.
C4_BackspaceUndoesPush ==
    (undo.phase = "undone" /\ posted = << >>) =>
      /\ prev_keys = undo.keys
      /\ surface = undo.text

\* the last event of the host was, in Hangul mode, a key press carrying a
\* modifier other than shift
ChordPressed ==
    /\ is_hangul_mode
    /\ last.type = KeyPress
    /\ last.other

\* C11: in Hangul mode a key press that carries a modifier other than
\* shift, whatever its key, leaves the composition stack empty.
C11_ChordResets == ChordPressed => prev_keys = << >>

\* C12: a focus-out event, in either mode and with any stack, leaves the
\* stack empty, posts nothing, leaves the mode unchanged and is not
\* consumed; the text stays as it is, and with an empty stack the filter is
\* exactly as before.
C12_FocusOutClears ==
    [][(posted = << >> /\ last'.type = FocusOut) =>
         /\ prev_keys' = << >>
         /\ posted' = << >>
         /\ is_hangul_mode' = is_hangul_mode
         /\ ~consumed'
         /\ ~raised'
         /\ surface' = surface
         /\ signal' = signal
         /\ prev_keys = << >> =>
              UNCHANGED << is_hangul_mode, do_not_remove_prev_chr, prev_keys,
                           posted, surface, signal >>
    ]_vars

\* the focus left a text widget that showed a syllable being composed
C12_Witness ==
    /\ last.type = FocusOut
    /\ is_hangul_mode
    /\ Len(before.keys) >= 2
    /\ prev_keys = << >>
    /\ surface = before.text

\* C13: whenever Hangul mode is off the stack is empty; the mode key
\* pressed in Hangul mode and reset() leave the mode off and the stack
\* empty; a key press received while the mode is off, other than the mode
\* key, leaves the stack as it is, is not consumed and posts nothing.
C13_OffMeansEmpty ==
    [][/\ ~is_hangul_mode' => prev_keys' = << >>
       /\ (/\ posted = << >>
           /\ is_hangul_mode
           /\ last'.type = KeyPress
           /\ last'.key = Key_Hangul) =>
            (~is_hangul_mode' /\ prev_keys' = << >> /\ consumed' /\ posted' = << >>)
       /\ (posted = << >> /\ last'.type = "reset") =>
            (~is_hangul_mode' /\ prev_keys' = << >> /\ ~do_not_remove_prev_chr')
       /\ (/\ posted = << >>
           /\ ~is_hangul_mode
           /\ last'.type = KeyPress
           /\ last'.key # Key_Hangul) =>
            /\ prev_keys' = prev_keys
            /\ ~is_hangul_mode'
            /\ ~consumed'
            /\ posted' = << >>
            /\ surface' = receive(surface, last')
    ]_vars

\* the mode key switched the mode off while a syllable was being composed
C13_Witness ==
    /\ ~is_hangul_mode
    /\ last.type = KeyPress
    /\ last.key = Key_Hangul
    /\ consumed
    /\ Len(before.keys) >= 2
    /\ prev_keys = << >>

\* the most events that may be waiting when the host sends a key early
MaxPending == 2

\* the host sends a key press while events the filter posted are still
\* waiting: postEvent only queues them, and nothing in the filter holds
\* back the next event of the host until they are delivered
EarlyKey ==
    /\ posted # << >>
    /\ Len(posted) <= MaxPending
    /\ Room
    /\ \E key \in TypedKeys \cup {Key_1} :
         Host(Event(KeyPress, key, FALSE, FALSE, KeyText(key, FALSE, FALSE), FALSE))

NextAsync ==
    \/ Next
    \/ EarlyKey

\* a text widget whose host does not wait for the posted events
SpecAsync == Init /\ [][NextAsync]_vars

\* C14: the display events posted for a key press have all been delivered
\* before the next key press is handled by the filter (which then posts
\* its own display events) or reaches the watched object (when the filter
\* does not consume it).
C14_DisplayedBeforeNextKey ==
    [][/\ Len(posted') > Len(posted) => posted = << >>
       /\ (last'.type = KeyPress /\ ~consumed') => posted' = << >>
    ]_vars

\* the host presses Backspace in Hangul mode
BackspacePressed ==
    /\ posted = << >>
    /\ is_hangul_mode
    /\ last'.type = KeyPress
    /\ last'.key = Key_Backspace

\* C15: in Hangul mode a Backspace that is not a repeat, with a non-empty
\* stack, is consumed, pops the top slot and posts a retract, followed by
\* the insert of the character of the stack that is left unless that stack
\* is empty; a Backspace with an empty stack reaches the watched object,
\* posts nothing and leaves the filter as it was.
C15_BackspacePops ==
    [][BackspacePressed =>
         /\ (~last'.auto /\ prev_keys # << >>) =>
              /\ consumed'
              /\ ~raised'
              /\ prev_keys' = Front(prev_keys)
              /\ posted' = IF Front(prev_keys) = << >>
                             THEN Retract
                             ELSE Retract \o Insert(Key_Null,
                                                    get_current_char(Front(prev_keys)))
              /\ surface' = surface
              /\ is_hangul_mode'
         /\ prev_keys = << >> =>
              /\ ~consumed'
              /\ posted' = << >>
              /\ surface' = Front(surface)
              /\ UNCHANGED << prev_keys, is_hangul_mode, do_not_remove_prev_chr, signal >>
    ]_vars

\* Backspace after ㅂ ㅏ: the text "바" has become "ㅂ"
C15_Witness ==
    /\ last.type = KeyPress
    /\ last.key = Key_Backspace
    /\ ~last.auto
    /\ consumed
    /\ before.keys = << <<CHOSEONG, 17>>, <<JUNGSEONG, 0>> >>
    /\ before.text = << 48148 >>
    /\ prev_keys = << <<CHOSEONG, 17>> >>
    /\ posted = << >>
    /\ surface = << 12610 >>

\* C16: handling one jamo key ends after at most one re-entry of
\* __update_status: the handler pushes at once, or resets and pushes on the
\* empty stack, or migrates and pushes on the one-slot stack [INITIAL]; when
\* the key has been handled the flag that suppresses the retract is false.
C16_BoundedReentry ==
    /\ ~do_not_remove_prev_chr
    /\ ~raised
    /\ Len(trace) <= 2
    /\ (LastIsJamo /\ is_hangul_mode) =>
         /\ consumed
         /\ trace \in { << "push" >>, << "reset", "push" >>, << "migrate", "push" >> }
         /\ trace = << "reset", "push" >> => Len(prev_keys) = 1
         /\ trace = << "migrate", "push" >> =>
              (/\ Len(prev_keys) = 2
               /\ prev_keys[1][1] = CHOSEONG
               /\ prev_keys[2][1] = JUNGSEONG)

\* a vowel has taken the final consonant of a syllable as its initial
C16_Witness ==
    /\ LastIsMoeum
    /\ is_hangul_mode
    /\ trace = << "migrate", "push" >>
    /\ Len(prev_keys) = 2
    /\ ~do_not_remove_prev_chr

NextTyping ==
    \/ JamoKey
    \/ BackspacePress
    \/ HangulKey
    \/ Deliver

\* a text widget whose host presses jamo keys, Backspace and the mode key
SpecTyping == Init /\ [][NextTyping]_vars

\* the text the last key press of the host left alone: all of it when no
\* syllable was being composed, all but its last character otherwise
KeptText == IF before.keys = << >> THEN before.text ELSE Front(before.text)

\* C17: after jamo keys and Backspace presses that are no repeats, once
\* the posted events are delivered, a non-empty stack has its character
\* right before the caret, and the last key press replaced the character
\* of the stack it found or appended after the text it found, nothing else.
C17_DisplayConsistent ==
    posted = << >> =>
      /\ prev_keys # << >> =>
           (surface # << >> /\ << Top(surface) >> = get_current_char(prev_keys))
      /\ (is_hangul_mode /\ last.type = KeyPress /\ last.key = Key_Backspace) =>
           surface = Front(before.text) \o get_current_char(prev_keys)
      /\ (is_hangul_mode /\ LastIsJamo) =>
           /\ trace = << "push" >> =>
                surface = KeptText \o get_current_char(prev_keys)
           /\ trace = << "reset", "push" >> =>
                surface = before.text \o get_current_char(prev_keys)
           /\ trace = << "migrate", "push" >> =>
                surface = KeptText \o get_current_char(Front(before.keys))
                                   \o get_current_char(prev_keys)

\* ㄱ ㅏ ㄱ typed into an empty text shows "각"
C17_Witness ==
    /\ posted = << >>
    /\ is_hangul_mode
    /\ LastIsJamo
    /\ trace = << "push" >>
    /\ Len(prev_keys) = 3
    /\ before.text = << 44032 >>
    /\ surface = << 44033 >>

\* C18: a Backspace press that the filter passes through to the host in
\* Hangul mode, repeating or not, leaves the stack empty; with no event
\* pending, the character before the caret is then never one the stack no
\* longer stands for.
C18_PassedBackspaceClears ==
    (/\ is_hangul_mode
     /\ last.type = KeyPress
     /\ last.key = Key_Backspace
     /\ ~consumed) => prev_keys = << >>

\* the events the filter posts: the Backspace pair of a retract and the
\* pair with key code 0 of an insert
IsSynthesized(e) ==
    \/ e.key = Key_Backspace /\ e.auto /\ e.text = << 8 >>
    \/ e.key = Key_Null /\ ~e.auto

\* C19: an event the filter posted, when it passes through the filter in
\* Hangul mode with any stack, is not consumed and leaves the stack, the
\* flag that suppresses the retract, the mode and the signal as they were;
\* it posts nothing.
C19_NoFeedback ==
    [][posted # << >> =>
         /\ IsSynthesized(Head(posted))
         /\ ~eventFilter(Current, Head(posted)).ret
         /\ posted' = Tail(posted)
         /\ ~raised'
         /\ UNCHANGED << prev_keys, do_not_remove_prev_chr, is_hangul_mode, signal >>
    ]_vars

\* the insert of a migrated syllable is being delivered: its key press has
\* passed the filter, its release is next
C19_Witness ==
    /\ is_hangul_mode
    /\ trace = << "migrate", "push" >>
    /\ Len(posted) = 1
    /\ posted[1].type = KeyRelease
    /\ posted[1].key = Key_Null
    /\ Len(prev_keys) = 2

\* C20: every press of the mode key is consumed, flips the mode and emits
\* the new mode, a value different from the one emitted before; after every
\* step (key presses, other events, calls of reset()) the value emitted
\* last, FALSE before the first emission, is the mode.
C20_SignalTracksMode ==
    [][/\ (posted = << >> /\ last'.type = KeyPress /\ last'.key = Key_Hangul) =>
            /\ consumed'
            /\ is_hangul_mode' = ~is_hangul_mode
            /\ signal' = is_hangul_mode'
            /\ signal' # signal
       /\ signal' = is_hangul_mode'
    ]_vars

====
